---- MODULE Spec2Model ----
(***************************************************************************)
(* A model of stencila/cloud.                                              *)
(*                                                                         *)
(* Spec     the request path of src/Host.js behind src/HostHttpServer.js:  *)
(*          receive -> manifest/post/put -> obtain -> aquire against the   *)
(*          Kubernetes control plane, then the proxied call to the pod and *)
(*          the token cookie of the response.                              *)
(* AquireSpec, RouteSpec   parts of Spec: manifest requests with a ticket, *)
(*          and every route under requests that carry no token.            *)
(* GateSpec the routes of src/HostHttpServer.js and of                     *)
(*          src/lib/HostHttpServer.js that require a session: receive(),   *)
(*          the body, the refusals and the call of the Host operation.     *)
(* DirSpec  the pod directory of KubernetesCluster (src/unnamed/part_000): *)
(*          overlapping list() calls and the cache.                        *)
(* SeqSpec  list(), get() and resolve() one call at a time, over any pods. *)
(* GetSpec  list() and get() while time passes and pods change.            *)
(* SpawnSpec   spawn() of KubernetesCluster and of Host: the pod request.  *)
(* FillSpec, FillFair, CleanFair   the fill and clean tasks of             *)
(*          src/lib/Cluster.js.                                            *)
(* PoolSpec    the fill task while standby pods are taken for sessions.    *)
(* ProxySpec, SessionProxySpec   calls forwarded to a session's pod:       *)
(*          sessionProxy of KubernetesCluster, manifest, post and put of   *)
(*          Host, with their retries.                                      *)
(*                                                                         *)
(* One step of a request is one callback of the code.  A callback that     *)
(* ends by issuing a control-plane call is modelled together with the      *)
(* control plane serving that call: the response is a snapshot taken in    *)
(* that step and is read by the next callback, any number of other steps   *)
(* later.                                                                  *)
(***************************************************************************)
EXTENDS Integers, Sequences, FiniteSets, TLC

\* ------------------------------------------------------------------ bounds
NumPods == 2
NumHosts == 2
NumReqs == 2

PodIds == 1..NumPods
Hosts == 1..NumHosts
Reqs == 1..NumReqs

NumSessions == 2
NumCallers == 2
MaxTicks == 1
MaxPodChanges == 1

NumFills == 2
MaxClusterPods == 4
\* the target size of the standby pool (process.env.STANDBY_POOL)
STANDBY_POOL == 2

Fills == 1..NumFills
SessionIds == 1..NumSessions
Callers == 1..NumCallers
Stamps == 1..NumSessions

\* ------------------------------------------------------- program constants
POD_PORT == 2000
DEFAULT_PORT == 2000
listRefresh == 10000

VARIABLES
  \* control plane
  pods,       \* pod name -> [phase, podIP, pool, claimer, aquirer]
  \* one record per HTTP request handled by some Host
  pc,         \* where the request's chain of callbacks stands
  host,       \* the Host (this._id) serving the request
  method,     \* HTTP method
  cred,       \* the credentials the request carries
  session,    \* the request's session object (null: NoSession)
  resp,       \* the control-plane response the next callback will read
  uri,        \* the pod address the request was forwarded to
  status,     \* HTTP status sent (0: none yet)
  cookie,     \* token set by the response
  aquired,    \* what aquire passed to its callback
  calls,      \* control-plane calls issued for the request, in order
  session0,   \* the session as receive() built it
  tokens      \* tokens the clients hold

hostVars == <<pods, pc, host, method, cred, session, resp, uri, status, cookie,
              aquired, calls, session0, tokens>>

VARIABLES
  \* control plane: the pods labelled type=session
  kpods,      \* pod name -> [exists, phase, podIP, created]
  \* KubernetesCluster
  kinit,      \* this._pods is set (init() has run)
  klist,      \* this._list
  klistedAs,  \* the order in which the control plane returned its pods
  kcachedAt,  \* this._listCachedAt (0: undefined)
  now,        \* new Date().getTime()
  ticks,      \* steps of the clock so far
  kchanges,   \* changes of the cluster's pods so far
  \* one record per call of list(), get() or resolve() in progress
  cpc,        \* where the call stands
  cop,        \* the method called
  carg,       \* its sessionId
  cresp,      \* the control plane's pods when it served the call awaited
  cfresh,     \* the cache was fresh when the call was made
  clisted,    \* the call issued a control-plane list call
  last        \* the call that finished last: what it did and returned

dirVars == <<kpods, kchanges, kinit, klist, klistedAs, kcachedAt, now, ticks, cpc, cop,
             carg, cresp, cfresh, clisted, last>>

VARIABLES
  \* one spawn() at a time, of KubernetesCluster or of Host
  SESSION_AFFINITY,  \* parseInt(process.env.SESSION_AFFINITY || '0', 10) || 0
  ssession,   \* the SoftwareSession spawn() is called with
  spc,        \* where the call stands
  sresp,      \* the control plane's answer the call is waiting for
  slast       \* the spawn() called last: its input, its pod request, its result

spawnVars == <<SESSION_AFFINITY, ssession, spc, sresp, slast>>

VARIABLES
  \* Cluster: the fill and clean tasks and the pods of the cluster they see
  fstarted,   \* start() has set its intervals
  fpc,        \* fill() call -> "none", "awaitList" or "scheduled"
  fresp,      \* what list() will give the fill() call that awaits it
  flast,      \* the fill cycle that ended last: list() succeeded, spawns issued
  fstandby,   \* pods in pool stage standby
  fother,     \* pods in a later pool stage, not terminated
  fterminal,  \* pods in phase Succeeded or Failed
  clast       \* the clean cycle that ran last: it succeeded, pods it deleted

fillVars == <<fstarted, fpc, fresp, flast, fstandby, fother, fterminal, clast>>

VARIABLES
  \* one call forwarded to a session's pod at a time: sessionProxy of
  \* KubernetesCluster, or manifest, post or put of Host
  xpc,        \* "idle", "resolving" (sessionProxy awaits resolve) or "requesting"
  xop,        \* the operation forwarding
  xresolves,  \* resolve() calls the operation has made
  xattempts,  \* times the request was sent to the pod
  xlast       \* the call that ended last: what it did and passed on

proxyVars == <<xpc, xop, xresolves, xattempts, xlast>>

VARIABLES
  \* one request at a time on a session-requiring route of HostHttpServer
  gpc,        \* "idle", "body" (body() pending), "host" (Host operation
              \* pending) or "done"
  greq,       \* the request: its route, whether its pathname matches the
              \* route's pattern, whether its body can be read, token, ticket
  gsession,   \* the session receive() built
  gop,        \* the Host operation invoked ("none": none)
  gsent       \* the responses sent by ctx.send, in order: [code, cookie]
gateVars == <<gpc, greq, gsession, gop, gsent>>

restVars == <<spawnVars, fillVars, proxyVars, gateVars>>

vars == <<hostVars, dirVars, restVars>>

\* ------------------------------------------------------------------ values
NoSession == [null |-> TRUE]
NoPod == <<>>
NoToken == [none |-> TRUE]
NoResp == [kind |-> "none"]
ErrResp == [kind |-> "err"]
NotCalled == [called |-> FALSE]

\* `http://${pod.status.podIP}:2000`
PodUrl(ip, port) == <<"http", ip, port>>

\* {} : the empty session a good ticket creates
EmptySession == [pod |-> NoPod, iat |-> 0]

\* ------------------------------------------------- tokens (jsonwebtoken)
\* jwt.sign(session, TOKEN_SECRET): the payload is a copy of the session
\* with an issued-at stamp (kept when the session already carries one).
\* a sign() that encodes the session without its pod
SignWithoutPod(s) == [sig |-> "TOKEN_SECRET", payload |-> [pod |-> NoPod, iat |-> 1]]

Sign(s) == [sig |-> "TOKEN_SECRET", payload |-> [s EXCEPT !.iat = 1]]

\* jwt.verify(token, TOKEN_SECRET) accepts only a token signed with the secret.
Verifies(t) == t.sig = "TOKEN_SECRET"
Verify(t) == t.payload

\* a token signed with another secret, naming a pod of the attacker's choice
ForgedToken == [sig |-> "forged", payload |-> [pod |-> PodUrl(1, POD_PORT), iat |-> 1]]

Methods == {"OPTIONS", "GET", "POST", "PUT"}

Credentials ==
  {[kind |-> "none"], [kind |-> "ticket", ticket |-> "TICKET"]}
  \cup {[kind |-> "token", token |-> t] : t \in tokens \cup {ForgedToken}}

\* a receive() that takes any ticket for the access ticket
ReceiveSessionAnyTicket(c) ==
  IF c.kind = "token"
  THEN IF Verifies(c.token)
       THEN [code |-> 0, session |-> Verify(c.token)]
       ELSE [code |-> 403, session |-> NoSession]
  ELSE IF c.kind = "ticket"
  THEN [code |-> 0, session |-> EmptySession]
  ELSE [code |-> 0, session |-> NoSession]

\* receive(): the session of a request, or the error it answers with
ReceiveSession(c) ==
  IF c.kind = "token"
  THEN IF Verifies(c.token)
       THEN [code |-> 0, session |-> Verify(c.token)]
       ELSE [code |-> 403, session |-> NoSession]
  ELSE IF c.kind = "ticket"
  THEN IF c.ticket # "TICKET"
       THEN [code |-> 403, session |-> NoSession]
       ELSE [code |-> 0, session |-> EmptySession]
  ELSE [code |-> 0, session |-> NoSession]

\* headers(): the Set-Cookie header of a response
Headers(m, s) ==
  IF s # NoSession /\ m # "OPTIONS" THEN Sign(s) ELSE NoToken

\* ------------------------------------------------------- control plane
Labelled(p, pool) == pods[p].pool = pool

RECURSIVE ListFrom(_, _)
ListFrom(p, pool) ==
  IF p > NumPods THEN <<>>
  ELSE (IF Labelled(p, pool)
        THEN <<[name |-> p, phase |-> pods[p].phase, podIP |-> pods[p].podIP]>>
        ELSE <<>>) \o ListFrom(p + 1, pool)

\* k8s.ns.pods.get({qs: {labelSelector: 'pool=standby'}})
K8sListResponse(pool) == [kind |-> "list", items |-> ListFrom(1, pool)]

\* the pod as the control plane returns it from a patch
K8sPodResponse(p, rec) ==
  [kind |-> "pod", name |-> p, podIP |-> rec.podIP, phase |-> rec.phase,
   pool |-> rec.pool, claimer |-> rec.claimer, aquirer |-> rec.aquirer]

RECURSIVE FirstRunningFrom(_, _)
FirstRunningFrom(items, i) ==
  IF i > Len(items) THEN 0
  ELSE IF items[i].phase = "Running" THEN items[i].name
  ELSE FirstRunningFrom(items, i + 1)

\* the loop over pods.items without the test of the phase
FirstListed(items) == IF items = <<>> THEN 0 ELSE items[1].name

\* the pod the loop over pods.items stops at (0: the loop ends without one)
FirstRunning(items) == FirstRunningFrom(items, 1)

\* ---------------------------------------------- what a callback ends with
\* ctx.send(code, ..., headers): the request is answered
Respond(r, code, tok) ==
  /\ pc' = [pc EXCEPT ![r] = "done"]
  /\ status' = [status EXCEPT ![r] = code]
  /\ cookie' = [cookie EXCEPT ![r] = tok]
  /\ tokens' = IF tok = NoToken THEN tokens ELSE tokens \cup {tok}
  /\ UNCHANGED <<resp, uri, calls, pods>>

\* request({method, uri, ...}, cb): the call to the session's pod is sent
Forward(r, pod, path) ==
  /\ pc' = [pc EXCEPT ![r] = "proxying"]
  /\ uri' = [uri EXCEPT ![r] = [pod |-> pod, path |-> path]]
  /\ UNCHANGED <<resp, status, cookie, calls, tokens, pods>>

\* the production branch of aquire(): list the standby pool
Aquire(r) ==
  /\ pc' = [pc EXCEPT ![r] = "listing"]
  /\ \E ok \in BOOLEAN :
       resp' = [resp EXCEPT ![r] = IF ok THEN K8sListResponse("standby") ELSE ErrResp]
  /\ calls' = [calls EXCEPT ![r] = Append(@, <<"list", 0>>)]
  /\ UNCHANGED <<uri, status, cookie, tokens, pods>>

\* k8s.ns.pods(name).patch({body: {metadata: {labels}}}, cb)
Patch(r, p, pool, next) ==
  /\ pc' = [pc EXCEPT ![r] = next]
  /\ calls' = [calls EXCEPT ![r] = Append(@, <<pool, p>>)]
  /\ \E ok \in BOOLEAN :
       IF ok
       THEN LET rec == IF pool = "claimed"
                       THEN [pods[p] EXCEPT !.pool = pool, !.claimer = host[r]]
                       ELSE [pods[p] EXCEPT !.pool = pool, !.aquirer = host[r]]
            IN /\ pods' = [pods EXCEPT ![p] = rec]
               /\ resp' = [resp EXCEPT ![r] = K8sPodResponse(p, rec)]
       ELSE /\ pods' = pods
            /\ resp' = [resp EXCEPT ![r] = ErrResp]
  /\ UNCHANGED <<uri, status, cookie, tokens>>

\* the pod request of manifest(), for the pod the session is bound to
ManifestRequest(r, pod) == Forward(r, pod, "")

\* obtain()'s callback under manifest(): aquire's result reaches the session
AquireCb(r, err, pod) ==
  /\ aquired' = [aquired EXCEPT ![r] = [called |-> TRUE, err |-> err, pod |-> pod]]
  /\ IF err
     THEN /\ Respond(r, 500, NoToken)
          /\ UNCHANGED session
     ELSE IF pod # NoPod
     THEN /\ session' = [session EXCEPT ![r] = [@ EXCEPT !.pod = pod]]
          /\ ManifestRequest(r, pod)
     ELSE \* this.spawn(...)
          /\ pc' = [pc EXCEPT ![r] = "spawning"]
          /\ UNCHANGED <<session, resp, uri, status, cookie, calls, tokens, pods>>

\* ------------------------------------------------------------- actions
\* manifest() that obtains a pod for every request with a session
ManifestAlwaysObtains(r, s) ==
  IF s = NoSession
  THEN Respond(r, 200, Headers("GET", NoSession))
  ELSE Aquire(r)

\* manifest(session, cb)
Manifest(r, s) ==
  IF s = NoSession
  THEN \* cb(null, {id, stencila}) : send() gets no session
       Respond(r, 200, Headers("GET", NoSession))
  ELSE IF s.pod # NoPod
  THEN ManifestRequest(r, s.pod)
  ELSE \* this.obtain(...) -> this.aquire(...)
       Aquire(r)

\* post and put that obtain a pod for a session that has none
PostOrPutObtaining(r, m, s) ==
  IF s.pod = NoPod
  THEN Aquire(r)
  ELSE Forward(r, s.pod, IF m = "POST" THEN "/type" ELSE "/address!method")

\* post(type, body, session, cb) and put(address, method, body, session, cb)
PostOrPut(r, m, s) ==
  IF s.pod = NoPod
  THEN \* cb(new Error('Session has not been initialised yet'))
       Respond(r, 500, NoToken)
  ELSE Forward(r, s.pod, IF m = "POST" THEN "/type" ELSE "/address!method")

\* A request arrives at a Host: the route, receive() and the Host operation
\* up to its first asynchronous call.
ReceiveOf(r, methods, credentials) ==
  /\ UNCHANGED <<dirVars, restVars>>
  /\ pc[r] = "idle"
  /\ \A q \in Reqs : q < r => pc[q] # "idle"
  /\ \E h \in Hosts, m \in methods, c \in credentials :
       \* hosts are interchangeable: a request goes to a host already in
       \* use or to the next unused one; OPTIONS reads no credentials
       /\ \A g \in Hosts : g < h => \E q \in Reqs : pc[q] # "idle" /\ host[q] = g
       /\ m = "OPTIONS" => c = [kind |-> "none"]
       /\ LET rs == IF m = "OPTIONS" THEN [code |-> 0, session |-> NoSession]
                    ELSE ReceiveSession(c)
          IN /\ host' = [host EXCEPT ![r] = h]
             /\ method' = [method EXCEPT ![r] = m]
             /\ cred' = [cred EXCEPT ![r] = c]
             /\ session0' = [session0 EXCEPT ![r] = rs.session]
             /\ session' = [session EXCEPT ![r] = rs.session]
             /\ UNCHANGED aquired
             /\ IF m = "OPTIONS" THEN Respond(r, 200, Headers(m, NoSession))
                ELSE IF rs.code # 0 THEN Respond(r, rs.code, NoToken)
                ELSE IF m = "GET" THEN Manifest(r, rs.session)
                ELSE IF rs.session = NoSession THEN Respond(r, 401, NoToken)
                ELSE PostOrPut(r, m, rs.session)

Receive(r) == ReceiveOf(r, Methods, Credentials)

\* The callback of the standby listing (Host.js 62-111).
OnPodsListed(r) ==
  /\ UNCHANGED <<dirVars, restVars>>
  /\ pc[r] = "listing"
  /\ UNCHANGED <<host, method, cred, session0>>
  /\ IF resp[r].kind = "err"
     THEN AquireCb(r, TRUE, NoPod)
     ELSE LET pod == FirstRunning(resp[r].items)
          IN IF pod = 0
             THEN \* the loop ends and nothing is called
                  /\ pc' = [pc EXCEPT ![r] = "returned"]
                  /\ UNCHANGED <<session, aquired, resp, uri, status, cookie,
                                 calls, tokens, pods>>
             ELSE /\ Patch(r, pod, "claimed", "claiming")
                  /\ UNCHANGED <<session, aquired>>

\* The callback of the claim patch (Host.js 77-106).
OnClaimed(r) ==
  /\ UNCHANGED <<dirVars, restVars>>
  /\ pc[r] = "claiming"
  /\ UNCHANGED <<host, method, cred, session0>>
  /\ IF resp[r].kind = "err"
     THEN AquireCb(r, TRUE, NoPod)
     ELSE IF resp[r].claimer = host[r]
     THEN /\ Patch(r, resp[r].name, "aquired", "aquiring")
          /\ UNCHANGED <<session, aquired>>
     ELSE \* this.aquire(cb)
          /\ Aquire(r)
          /\ UNCHANGED <<session, aquired>>

\* The callback of the aquire patch (Host.js 93-100).
OnAquired(r) ==
  /\ UNCHANGED <<dirVars, restVars>>
  /\ pc[r] = "aquiring"
  /\ UNCHANGED <<host, method, cred, session0>>
  /\ IF resp[r].kind = "err"
     THEN AquireCb(r, TRUE, NoPod)
     ELSE AquireCb(r, FALSE, PodUrl(resp[r].podIP, POD_PORT))

\* The callback of the request to the pod (Host.js 267-269, 284-286, 299-301)
\* and the route's callback: error() or send().
OnPodResponse(r) ==
  /\ UNCHANGED <<dirVars, restVars>>
  /\ pc[r] = "proxying"
  /\ UNCHANGED <<host, method, cred, session0, session, aquired>>
  /\ \E err \in BOOLEAN :
       IF err THEN Respond(r, 500, NoToken)
       ELSE Respond(r, 200, Headers(method[r], session[r]))

\* The cluster starts a Pending pod.
PodPhase(p) ==
  /\ UNCHANGED <<dirVars, restVars>>
  /\ pods[p].phase = "Pending"
  /\ pods' = [pods EXCEPT ![p] = [@ EXCEPT !.phase = "Running", !.podIP = p]]
  /\ UNCHANGED <<pc, host, method, cred, session, resp, uri, status, cookie,
                 aquired, calls, session0, tokens>>

NoUri == [pod |-> NoPod, path |-> ""]

StandbyPod(ph) ==
  [phase |-> ph, podIP |-> 0, pool |-> "standby", claimer |-> 0, aquirer |-> 0]

HostInit ==
  /\ pods \in {[p \in PodIds |-> IF p \in up THEN [StandbyPod("Running") EXCEPT !.podIP = p]
                                 ELSE StandbyPod("Pending")] : up \in SUBSET PodIds}
  /\ pc = [r \in Reqs |-> "idle"]
  /\ host = [r \in Reqs |-> 1]
  /\ method = [r \in Reqs |-> "GET"]
  /\ cred = [r \in Reqs |-> [kind |-> "none"]]
  /\ session = [r \in Reqs |-> NoSession]
  /\ session0 = [r \in Reqs |-> NoSession]
  /\ resp = [r \in Reqs |-> NoResp]
  /\ uri = [r \in Reqs |-> NoUri]
  /\ status = [r \in Reqs |-> 0]
  /\ cookie = [r \in Reqs |-> NoToken]
  /\ aquired = [r \in Reqs |-> NotCalled]
  /\ calls = [r \in Reqs |-> <<>>]
  /\ tokens = {}

\* =============================== KubernetesCluster: the pod directory
\* pod.status.phase.toLowerCase()
ToLowerCase(phase) ==
  CASE phase = "Pending" -> "pending"
    [] phase = "Running" -> "running"
    [] phase = "Succeeded" -> "succeeded"
    [] phase = "Failed" -> "failed"
    [] phase = "Unknown" -> "unknown"

\* new SessionDescription(id, ip, port, created, status)
SessionDescription(id, ip, port, created, st) ==
  [id |-> id, ip |-> ip, port |-> port, created |-> created, status |-> st,
   pendingPosition |-> -1]

\* KubernetesCluster._podToSession
PodToSession(pod) ==
  SessionDescription(pod.name, pod.podIP, DEFAULT_PORT, pod.creationTimestamp,
                     ToLowerCase(pod.phase))

\* podItems.map(pod => KubernetesCluster._podToSession(pod))
MapPodToSession(items) == [i \in 1..Len(items) |-> PodToSession(items[i])]

\* the comparator of the sort
ByCreated(a, b) == a.created - b.created

\* a comparator that orders the newest first
ByCreatedDescending(a, b) == b.created - a.created

Compare(a, b) == ByCreated(a, b)

RECURSIVE Insert(_, _)
Insert(sorted, x) ==
  IF sorted = <<>> THEN <<x>>
  ELSE IF Compare(Head(sorted), x) > 0 THEN <<x>> \o sorted
  ELSE <<Head(sorted)>> \o Insert(Tail(sorted), x)

RECURSIVE SortFrom(_, _, _)
SortFrom(items, i, sorted) ==
  IF i > Len(items) THEN sorted
  ELSE SortFrom(items, i + 1, Insert(sorted, items[i]))

\* sessions.sort((a, b) => a.created - b.created)
Sort(items) == SortFrom(items, 1, <<>>)

\* sessions.map(session => { if pending: pendingPosition = pendingQueue++ })
RECURSIVE RankPending(_, _)
RankPending(sessions, pendingQueue) ==
  IF sessions = <<>> THEN <<>>
  ELSE IF Head(sessions).status = "pending"
  THEN <<[Head(sessions) EXCEPT !.pendingPosition = pendingQueue]>>
       \o RankPending(Tail(sessions), pendingQueue + 1)
  ELSE <<Head(sessions)>> \o RankPending(Tail(sessions), pendingQueue)

\* new Map(sessions.map(session => [session.id, session])), as its values
ToMap(sessions) == {sessions[i] : i \in 1..Len(sessions)}

\* the cache with the sessions of a response added to those it holds
RefreshedMerging(items) == klist \cup ToMap(RankPending(Sort(MapPodToSession(items)), 0))

\* the cache a response of the control plane is turned into (list, 269-284)
Refreshed(items) == ToMap(RankPending(Sort(MapPodToSession(items)), 0))

Has(sessions, id) == \E x \in sessions : x.id = id
Get(sessions, id) == CHOOSE x \in sessions : x.id = id

\* the test at the head of list() with >= in place of >
StaleFromInterval == kcachedAt = 0 \/ now - kcachedAt >= listRefresh

\* !this._listCachedAt || (now - this._listCachedAt) > this._options.listRefresh
Stale == kcachedAt = 0 \/ now - kcachedAt > listRefresh

\* the pod description the control plane gives for a pod
PodDescription(p, k) ==
  [name |-> p, creationTimestamp |-> k[p].created, podIP |-> k[p].podIP,
   phase |-> k[p].phase]

\* the pods of a snapshot in the order of their names, as the control plane
\* lists them from its store
RECURSIVE ByName(_, _)
ByName(k, p) ==
  IF p > NumSessions THEN <<>>
  ELSE IF k[p].exists THEN <<PodDescription(p, k)>> \o ByName(k, p + 1)
  ELSE ByName(k, p + 1)

\* every order in which the pods of a snapshot may come back
Listings(k) ==
  LET existing == {p \in SessionIds : k[p].exists}
      n == Cardinality(existing)
  IN {[i \in 1..n |-> PodDescription(f[i], k)] :
        f \in {g \in [1..n -> existing] : \A i, j \in 1..n : i # j => g[i] # g[j]}}

Value(v) == [kind |-> "value", value |-> v]
Error(e) == [kind |-> "error", error |-> e]
NoRet == [kind |-> "none"]
NoSessionDescription == [id |-> 0]
NoLast ==
  [op |-> "none", arg |-> 0, fresh |-> FALSE, listed |-> FALSE, seen |-> {},
   pod |-> NoSessionDescription, ret |-> NoRet]

\* the three results of resolve() for the pod get() returned
ResolveOutcome(pod) ==
  IF pod.ip # 0 /\ pod.port # 0 THEN Value(PodUrl(pod.ip, pod.port))
  ELSE IF pod.status = "Pending" THEN Error("Pod not ready yet")
  ELSE Error("Pod failure?")

\* The call ends: its promise is resolved or rejected.  The finished call is
\* kept in `last`; its slot is free for the next call.
Finish(c, op, id, fresh, listed, pod, outcome) ==
  /\ last' = [op |-> op, arg |-> id, fresh |-> fresh, listed |-> listed,
              seen |-> IF fresh THEN klist ELSE {}, pod |-> pod, ret |-> outcome]
  /\ cpc' = [cpc EXCEPT ![c] = "idle"]
  /\ cop' = [cop EXCEPT ![c] = "list"]
  /\ carg' = [carg EXCEPT ![c] = 1]
  /\ cfresh' = [cfresh EXCEPT ![c] = FALSE]
  /\ clisted' = [clisted EXCEPT ![c] = FALSE]
  /\ cresp' = [cresp EXCEPT ![c] = NoResp]

\* this._pods.get({qs: {labelSelector: 'type=session'}}): the control plane
\* answers from the pods as they are now
IssueList(c, op, id) ==
  /\ cpc' = [cpc EXCEPT ![c] = "awaitList"]
  /\ cop' = [cop EXCEPT ![c] = op]
  /\ carg' = [carg EXCEPT ![c] = id]
  /\ cfresh' = [cfresh EXCEPT ![c] = FALSE]
  /\ clisted' = [clisted EXCEPT ![c] = TRUE]
  /\ cresp' = [cresp EXCEPT ![c] = [kind |-> "list", pods |-> kpods]]
  /\ UNCHANGED last

\* this._pods(sessionId).get()
IssueGet(c, op, id, fresh, listed) ==
  /\ cpc' = [cpc EXCEPT ![c] = "awaitGet"]
  /\ cop' = [cop EXCEPT ![c] = op]
  /\ carg' = [carg EXCEPT ![c] = id]
  /\ cfresh' = [cfresh EXCEPT ![c] = fresh]
  /\ clisted' = [clisted EXCEPT ![c] = listed]
  /\ cresp' = [cresp EXCEPT ![c] = [kind |-> "pod", pods |-> kpods]]
  /\ UNCHANGED last

\* get() has its SessionDescription: get returns it, resolve goes on
AfterGet(c, op, id, fresh, listed, pod) ==
  Finish(c, op, id, fresh, listed, pod,
         IF op = "get" THEN Value(pod) ELSE ResolveOutcome(pod))

\* get() as Cluster.get has it: null for an id that is not listed
AfterListNullOnMiss(c, op, id, fresh, listed, sessions) ==
  IF op = "list"
  THEN Finish(c, op, id, fresh, listed, NoSessionDescription, Value(sessions))
  ELSE IF Has(sessions, id)
  THEN AfterGet(c, op, id, fresh, listed, Get(sessions, id))
  ELSE Finish(c, op, id, fresh, listed, NoSessionDescription,
              IF op = "get" THEN Value(NoSessionDescription) ELSE Error("TypeError"))

\* list() has returned `sessions` to list's caller or to get()
AfterList(c, op, id, fresh, listed, sessions) ==
  IF op = "list"
  THEN Finish(c, op, id, fresh, listed, NoSessionDescription, Value(sessions))
  ELSE IF Has(sessions, id)
  THEN AfterGet(c, op, id, fresh, listed, Get(sessions, id))
  ELSE IssueGet(c, op, id, fresh, listed)

\* a list() that answers a failure with the map it holds
ListReturnsCacheOnFailure(c, op, id, listed, e) ==
  Finish(c, op, id, FALSE, listed, NoSessionDescription, Value(klist))

\* list() throws, or the control plane's call rejects: the exception goes
\* through get() and resolve() to the caller
ListThrows(c, op, id, listed, e) ==
  Finish(c, op, id, FALSE, listed, NoSessionDescription, Error(e))

\* A call of list(), get(id) or resolve(id), up to its first await.
Call(c, ops) ==
  /\ cpc[c] = "idle"
  /\ \A q \in Callers : q < c => cpc[q] # "idle"
  /\ \E op \in ops, id \in SessionIds :
       /\ op = "list" => id = 1
       /\ IF Stale
          THEN IF ~kinit
               THEN \* throw new TypeError('this._pods has not been instantiated.')
                    ListThrows(c, op, id, FALSE, "TypeError")
               ELSE IssueList(c, op, id)
          ELSE AfterList(c, op, id, TRUE, FALSE, klist)
  /\ UNCHANGED <<kpods, kchanges, kinit, klist, klistedAs, kcachedAt, now, ticks>>

DirCall(c, ops) ==
  /\ UNCHANGED <<hostVars, restVars>>
  /\ Call(c, ops)

\* list() resumes with the control plane's response, or with its failure.
ListResponse(c, anyOrder) ==
  /\ cpc[c] = "awaitList"
  /\ \/ /\ ListThrows(c, cop[c], carg[c], TRUE, "list failed")
        /\ UNCHANGED <<klist, klistedAs, kcachedAt>>
     \/ \E items \in IF anyOrder THEN Listings(cresp[c].pods)
                       ELSE {ByName(cresp[c].pods, 1)} :
          /\ klist' = Refreshed(items)
          /\ klistedAs' = [i \in 1..Len(items) |-> items[i].name]
          /\ kcachedAt' = now
          /\ AfterList(c, cop[c], carg[c], FALSE, TRUE, Refreshed(items))
  /\ UNCHANGED <<kpods, kchanges, kinit, now, ticks>>

DirListResponse(c, anyOrder) ==
  /\ UNCHANGED <<hostVars, restVars>>
  /\ ListResponse(c, anyOrder)

\* get() resumes with the control plane's response for one pod, or with its
\* failure (the pod is not there, or the call failed).
GetResponse(c) ==
  /\ cpc[c] = "awaitGet"
  /\ \/ Finish(c, cop[c], carg[c], cfresh[c], clisted[c], NoSessionDescription,
               Error("get failed"))
     \/ /\ cresp[c].pods[carg[c]].exists
        /\ AfterGet(c, cop[c], carg[c], cfresh[c], clisted[c],
                    PodToSession(PodDescription(carg[c], cresp[c].pods)))
  /\ UNCHANGED <<kpods, kchanges, kinit, klist, klistedAs, kcachedAt, now, ticks>>

DirGetResponse(c) ==
  /\ UNCHANGED <<hostVars, restVars>>
  /\ GetResponse(c)

\* init()
DirInitCall ==
  /\ UNCHANGED <<hostVars, restVars>>
  /\ ~kinit
  /\ kinit' = TRUE
  /\ UNCHANGED <<kpods, kchanges, klist, klistedAs, kcachedAt, now, ticks, cpc,
                 cop, carg, cresp, cfresh, clisted, last>>

\* Time passes: a whole refresh interval, or a millisecond more.
Tick ==
  /\ UNCHANGED <<hostVars, restVars>>
  /\ ticks < MaxTicks
  /\ \E d \in {listRefresh, listRefresh + 1} : now' = now + d
  /\ ticks' = ticks + 1
  /\ UNCHANGED <<kpods, kchanges, kinit, klist, klistedAs, kcachedAt, cpc, cop,
                 carg, cresp, cfresh, clisted, last>>

\* The cluster creates a session pod, starts a Pending pod or fails it.
KPodChanges(p) ==
  /\ UNCHANGED <<hostVars, restVars>>
  /\ kchanges < MaxPodChanges
  /\ kchanges' = kchanges + 1
  /\ \/ /\ ~kpods[p].exists
        /\ kpods' = [kpods EXCEPT ![p].exists = TRUE]
     \/ /\ kpods[p].exists /\ kpods[p].phase = "Pending"
        /\ kpods' = [kpods EXCEPT ![p].phase = "Running", ![p].podIP = p]
     \/ /\ kpods[p].exists /\ kpods[p].phase = "Pending"
        /\ kpods' = [kpods EXCEPT ![p].phase = "Failed"]
  /\ UNCHANGED <<kinit, klist, klistedAs, kcachedAt, now, ticks, cpc, cop, carg,
                 cresp, cfresh, clisted, last>>

\* a KubernetesCluster just constructed, no call made
DirConstructed ==
  /\ kchanges = 0
  /\ kinit = FALSE
  /\ klist = {}
  /\ klistedAs = <<>>
  /\ kcachedAt = 0
  /\ now = 1
  /\ ticks = 0
  /\ cpc = [c \in Callers |-> "idle"]
  /\ cop = [c \in Callers |-> "list"]
  /\ carg = [c \in Callers |-> 1]
  /\ cresp = [c \in Callers |-> NoResp]
  /\ cfresh = [c \in Callers |-> FALSE]
  /\ clisted = [c \in Callers |-> FALSE]
  /\ last = NoLast

\* no call of the directory is made
DirIdle ==
  /\ kpods = [p \in SessionIds |->
                [exists |-> FALSE, phase |-> "Pending", podIP |-> 0, created |-> 1]]
  /\ DirConstructed

\* a KubernetesCluster just constructed; the first session pods are Pending in
\* the cluster, the others are still to be created
DirInit ==
  /\ kpods \in {[p \in SessionIds |->
                   [exists |-> p <= n, phase |-> "Pending", podIP |-> 0, created |-> p]] :
                 n \in 0..NumSessions}
  /\ DirConstructed

\* a session pod in any phase, created at any time
SessionPods(p) ==
  [exists : BOOLEAN, phase : {"Pending"}, podIP : {0}, created : Stamps]
  \cup [exists : {TRUE}, phase : {"Running"}, podIP : {p}, created : Stamps]
  \cup [exists : {TRUE}, phase : {"Failed"}, podIP : {0}, created : Stamps]

\* a KubernetesCluster just constructed, over any pods
SeqInit ==
  /\ kpods \in {k \in [SessionIds -> UNION {SessionPods(p) : p \in SessionIds}] :
                  \A p \in SessionIds : k[p] \in SessionPods(p)}
  /\ DirConstructed

\* ------------------------------------------------------------- spawn
\* JavaScript values of the optional fields of a SoftwareSession
Undefined == [kind |-> "undefined"]
NaN == [kind |-> "NaN"]
Num(n) == [kind |-> "number", n |-> n]

\* a value in the condition of an `if` or on the left of `&&`
Truthy(v) ==
  CASE v.kind = "number" -> v.n # 0
    [] v.kind = "object" -> TRUE
    [] OTHER -> FALSE

\* numbers that need not be whole, as fractions
Rat(n, d) == <<n, d>>

RECURSIVE GCD(_, _)
GCD(a, b) == IF b = 0 THEN a ELSE GCD(b, a % b)

Reduce(x) == LET g == GCD(x[1], x[2]) IN <<x[1] \div g, x[2] \div g>>

\* `${x}Gi`, `${x}m`: equal numbers print the same
Template(x, unit) == [value |-> Reduce(x), unit |-> unit]

POD_REQUEST_CPU == Rat(50, 1)
POD_REQUEST_MEM == Rat(50, 1024)
POD_LIMIT_CPU == Rat(1000, 1)
POD_LIMIT_MEM == Rat(12, 10)

\* softwareSessionToResourceLimitsTransformer with cpu.shares taken as
\* millicores
TransformerSharesAsMillicores(softwareSession) ==
  LET memoryRequested ==
        IF Truthy(softwareSession.ram) /\ Truthy(softwareSession.ram.reservation)
        THEN Rat(softwareSession.ram.reservation.n, 1) ELSE POD_REQUEST_MEM
      memoryLimit ==
        IF Truthy(softwareSession.ram) /\ Truthy(softwareSession.ram.limit)
        THEN Rat(softwareSession.ram.limit.n, 1) ELSE POD_LIMIT_MEM
      cpuLimit ==
        IF Truthy(softwareSession.cpu) /\ Truthy(softwareSession.cpu.shares)
        THEN Rat(softwareSession.cpu.shares.n, 1) ELSE POD_LIMIT_CPU
  IN [requests |-> [memory |-> Template(memoryRequested, "Gi"),
                    cpu |-> Template(POD_REQUEST_CPU, "m")],
      limits |-> [memory |-> Template(memoryLimit, "Gi"),
                  cpu |-> Template(cpuLimit, "m")]]

softwareSessionToResourceLimitsTransformer(softwareSession) ==
  LET memoryRequested ==
        IF Truthy(softwareSession.ram) /\ Truthy(softwareSession.ram.reservation)
        THEN Rat(softwareSession.ram.reservation.n, 1) ELSE POD_REQUEST_MEM
      memoryLimit ==
        IF Truthy(softwareSession.ram) /\ Truthy(softwareSession.ram.limit)
        THEN Rat(softwareSession.ram.limit.n, 1) ELSE POD_LIMIT_MEM
      cpuLimit ==
        IF Truthy(softwareSession.cpu) /\ Truthy(softwareSession.cpu.shares)
        THEN Rat(softwareSession.cpu.shares.n * 1000, 1024) ELSE POD_LIMIT_CPU
  IN [requests |-> [memory |-> Template(memoryRequested, "Gi"),
                    cpu |-> Template(POD_REQUEST_CPU, "m")],
      limits |-> [memory |-> Template(memoryLimit, "Gi"),
                  cpu |-> Template(cpuLimit, "m")]]

\* enum ImagePullPolicy { Always, IfNotPresent }
ImagePullPolicy == [Always |-> 0, IfNotPresent |-> 1]
ImagePullPolicyName(n) == IF n = 0 THEN "Always" ELSE "IfNotPresent"

ContainerDescription(image, cmd, containerVars, imagePullPolicy) ==
  [kind |-> "object", image |-> image, cmd |-> cmd, vars |-> containerVars,
   imagePullPolicy |-> imagePullPolicy]

STENCILA_CORE_IMAGE == "stencila/core"

DEFAULT_CONTAINERS ==
  <<ContainerDescription(STENCILA_CORE_IMAGE, <<"stencila-cmd">>,
                         <<[name |-> "STENCILA_AUTH", value |-> "false"]>>,
                         Num(ImagePullPolicy.IfNotPresent)),
    ContainerDescription("stencila/base-node", <<"stencila-cmd">>,
                         <<[name |-> "STENCILA_AUTH", value |-> "false"]>>,
                         Num(ImagePullPolicy.Always)),
    ContainerDescription("alpine", <<"sleep", "90">>, <<>>, Undefined)>>

\* this._containers.get(environId) that falls back on the first container
ContainersGetOrDefault(environId) ==
  IF \E i \in 1..Len(DEFAULT_CONTAINERS) : DEFAULT_CONTAINERS[i].image = environId
  THEN DEFAULT_CONTAINERS[CHOOSE i \in 1..Len(DEFAULT_CONTAINERS) :
                            DEFAULT_CONTAINERS[i].image = environId]
  ELSE DEFAULT_CONTAINERS[1]

\* this._containers.get(environId), this._containers being CONTAINER_MAP
ContainersGet(environId) ==
  IF \E i \in 1..Len(DEFAULT_CONTAINERS) : DEFAULT_CONTAINERS[i].image = environId
  THEN DEFAULT_CONTAINERS[CHOOSE i \in 1..Len(DEFAULT_CONTAINERS) :
                            DEFAULT_CONTAINERS[i].image = environId]
  ELSE Undefined

\* the PodRequest of KubernetesCluster.spawn as `options` is first assigned
PodRequestOptions(name, reason, container, resources) ==
  [kind |-> "Pod",
   apiVersion |-> "v1",
   metadata |-> [name |-> name, type |-> "stencila-cloud-pod",
                 labels |-> [type |-> "session", reason |-> reason]],
   spec |->
     [containers |->
        <<[name |-> "stencila-host-container",
           image |-> container.image,
           imagePullPolicy |->
             ImagePullPolicyName(IF Truthy(container.imagePullPolicy)
                                 THEN container.imagePullPolicy.n
                                 ELSE ImagePullPolicy.IfNotPresent),
           env |-> container.vars,
           command |-> SubSeq(container.cmd, 1, 1),
           args |-> SubSeq(container.cmd, 2, Len(container.cmd)),
           resources |-> resources,
           ports |-> <<[containerPort |-> DEFAULT_PORT]>>]>>,
      restartPolicy |-> "Never",
      securityContext |-> [runAsUser |-> 1000],
      automountServiceAccountToken |-> FALSE]]

\* options.spec['affinity']
Affinity ==
  [podAffinity |->
     [preferredDuringSchedulingIgnoredDuringExecution |->
        <<[weight |-> SESSION_AFFINITY,
           podAffinityTerm |->
             [labelSelector |->
                [matchExpressions |->
                   <<[key |-> "type", operator |-> "In", values |-> <<"session">>]>>],
              topologyKey |-> "kubernetes.io/hostname"]]>>]]

\* the PodRequest with the affinity applied whatever SESSION_AFFINITY is
PodRequestAlwaysAffine(name, reason, container, resources) ==
  LET options == PodRequestOptions(name, reason, container, resources)
  IN [options EXCEPT !.spec = ("affinity" :> Affinity) @@ options.spec]

\* the PodRequest spawn posts: `if (SESSION_AFFINITY)` applies the affinity
PodRequest(name, reason, container, resources) ==
  LET options == PodRequestOptions(name, reason, container, resources)
  IN IF SESSION_AFFINITY # 0
     THEN [options EXCEPT !.spec = ("affinity" :> Affinity) @@ options.spec]
     ELSE options

\* the body Host.spawn posts in production
HostPodRequest(name, id) ==
  [kind |-> "Pod",
   apiVersion |-> "v1",
   metadata |-> [name |-> name, type |-> "stencila-cloud-pod",
                 metadata |-> [labels |-> [pool |-> "spawned", spawner |-> id]]],
   spec |->
     [containers |->
        <<[name |-> "stencila-container",
           image |-> "stencila/core",
           imagePullPolicy |-> "IfNotPresent",
           command |-> <<"node">>,
           args |-> <<"-e", "require(stencila-node).run">>,
           resources |-> [requests |-> [memory |-> "500Mi", cpu |-> "250m"],
                          limits |-> [memory |-> "2Gi", cpu |-> "1000m"]],
           ports |-> <<[containerPort |-> POD_PORT]>>]>>,
      restartPolicy |-> "Never"]]

\* values of process.env.SESSION_AFFINITY: unset, and a weight in 1..100
AffinityWeights == {0, 50}

\* the SoftwareSessions spawn is called with
Environs == {"stencila/core", "stencila/base-node", "alpine", "stencila/unknown"}
RamValues == {Undefined, Num(0), Num(2)}
ShareValues == {Undefined, NaN, Num(0), Num(512), Num(100)}
SoftwareSessions ==
  [environment : [id : Environs],
   ram : {Undefined} \cup [kind : {"object"}, reservation : RamValues, limit : RamValues],
   cpu : {Undefined} \cup [kind : {"object"}, shares : ShareValues]]
Reasons == {"session", "filling"}

NoBody == [kind |-> "none"]
NoSpawn ==
  [by |-> "none", session |-> Undefined, body |-> NoBody, ret |-> NoRet]

\* spawn() of KubernetesCluster up to `await this._pods.post`; the control
\* plane creates the pod under the new name, or fails
KSpawn(reason) ==
  /\ UNCHANGED <<hostVars, fillVars, proxyVars, gateVars>>
  /\ spc = "idle"
  /\ UNCHANGED <<ssession, SESSION_AFFINITY>>
  /\ IF ~kinit
     THEN /\ slast' = [by |-> "KubernetesCluster", session |-> ssession,
                       body |-> NoBody,
                       ret |-> Error("this._pods has not been instantiated")]
          /\ UNCHANGED <<spc, sresp, kpods>>
     ELSE LET container == ContainersGet(ssession.environment.id)
          IN IF ~Truthy(container)
             THEN /\ slast' = [by |-> "KubernetesCluster", session |-> ssession,
                               body |-> NoBody,
                               ret |-> Error("Container with environment ID does not exist")]
                  /\ UNCHANGED <<spc, sresp, kpods>>
             ELSE /\ spc' = "awaitPost"
                  /\ \E name \in SessionIds \cup {0} :
                       /\ name # 0 => ~kpods[name].exists
                       /\ slast' = [by |-> "KubernetesCluster", session |-> ssession,
                                    body |-> PodRequest(name, reason, container,
                                       softwareSessionToResourceLimitsTransformer(ssession)),
                                    ret |-> NoRet]
                       /\ IF name = 0
                          THEN /\ sresp' = ErrResp
                               /\ UNCHANGED kpods
                          ELSE /\ sresp' = [kind |-> "pod", name |-> name]
                               /\ kpods' = [kpods EXCEPT ![name].exists = TRUE]
  /\ UNCHANGED <<kchanges, kinit, klist, klistedAs, kcachedAt, now, ticks, cpc, cop,
                 carg, cresp, cfresh, clisted, last>>

\* spawn() resumes with the response of the create call, or with its failure
KSpawnResponse ==
  /\ UNCHANGED <<hostVars, dirVars, fillVars, proxyVars, gateVars, ssession, SESSION_AFFINITY>>
  /\ spc = "awaitPost"
  /\ spc' = "idle"
  /\ sresp' = NoResp
  /\ slast' = [slast EXCEPT !.ret = IF sresp.kind = "err" THEN Error("post failed")
                                    ELSE Value(sresp.name)]

\* the phases a get can find a pod in that an earlier get found in `phase`:
\* a pod with restartPolicy Never stays Succeeded or Failed
TerminalPhases == {"Succeeded", "Failed"}
PhasesAfter(phase) ==
  IF phase \in TerminalPhases THEN {phase}
  ELSE IF phase = "Running" THEN {"Running"} \cup TerminalPhases
  ELSE {"Pending", "Running"} \cup TerminalPhases

\* Host.spawn in production: k8s.ns.pods.post
HostSpawn(id) ==
  /\ UNCHANGED <<hostVars, dirVars, fillVars, proxyVars, gateVars, ssession, SESSION_AFFINITY>>
  /\ spc = "idle"
  /\ spc' = "hostPost"
  /\ \E ok \in BOOLEAN : sresp' = IF ok THEN [kind |-> "pod", name |-> id] ELSE ErrResp
  /\ slast' = [by |-> "Host", session |-> Undefined, body |-> HostPodRequest(id, id),
               ret |-> NoRet]

\* the callback of the post, and awaitPod: k8s.ns.pods(name).get
HostSpawnCreated ==
  /\ UNCHANGED <<hostVars, dirVars, fillVars, proxyVars, gateVars, ssession, SESSION_AFFINITY>>
  /\ spc = "hostPost"
  /\ IF sresp.kind = "err"
     THEN /\ spc' = "idle"
          /\ sresp' = NoResp
          /\ slast' = [slast EXCEPT !.ret = Error("post failed")]
     ELSE /\ spc' = "hostAwaitPod"
          /\ \E ok \in BOOLEAN, phase \in PhasesAfter("Pending") :
               sresp' = IF ok THEN [kind |-> "pod", name |-> sresp.name, phase |-> phase]
                        ELSE ErrResp
          /\ UNCHANGED slast

\* the callback of awaitPod's get: cb(null, url) once the pod is Running,
\* setTimeout(awaitPod, 300) until then
HostSpawnPolled ==
  /\ UNCHANGED <<hostVars, dirVars, fillVars, proxyVars, gateVars, ssession, SESSION_AFFINITY>>
  /\ spc = "hostAwaitPod"
  /\ IF sresp.kind = "err"
     THEN /\ spc' = "idle"
          /\ sresp' = NoResp
          /\ slast' = [slast EXCEPT !.ret = Error("get failed")]
     ELSE IF sresp.phase = "Running"
     THEN /\ spc' = "idle"
          /\ sresp' = NoResp
          /\ slast' = [slast EXCEPT !.ret = Value(PodUrl(sresp.name, POD_PORT))]
     ELSE /\ \E ok \in BOOLEAN, phase \in PhasesAfter(sresp.phase) :
               sresp' = IF ok THEN [kind |-> "pod", name |-> sresp.name, phase |-> phase]
                        ELSE ErrResp
          /\ UNCHANGED <<spc, slast>>

\* no spawn() is under way
SpawnReady ==
  /\ spc = "idle"
  /\ sresp = NoResp
  /\ slast = NoSpawn

\* no spawn() is called
SpawnIdle ==
  /\ SESSION_AFFINITY = 0
  /\ ssession = [environment |-> [id |-> STENCILA_CORE_IMAGE], ram |-> Undefined,
                 cpu |-> Undefined]
  /\ spc = "idle"
  /\ sresp = NoResp
  /\ slast = NoSpawn

\* ------------------------------------------------------ fill and clean
NoClean == [ran |-> FALSE, ok |-> FALSE, deleted |-> 0]
NoFill == [ended |-> FALSE, ok |-> FALSE, spawns |-> 0]

\* fill() ends: setTimeout(() => this.fill(), STANDBY_FREQ) inside the try
FillEndsUnlessFailed(f, ok) ==
  fpc' = [fpc EXCEPT ![f] = IF ok THEN "scheduled" ELSE "stopped"]

\* fill() ends: setTimeout(() => this.fill(), STANDBY_FREQ)
FillEnds(f, ok) == fpc' = [fpc EXCEPT ![f] = "scheduled"]

\* const pods = await this.list(): list() throws, as Cluster.list does, or
\* gives the Map of the pods the cluster has, as a list() that overrides it
FillList(f) ==
  /\ fpc' = [fpc EXCEPT ![f] = "awaitList"]
  /\ \E overridden \in BOOLEAN :
       fresp' = [fresp EXCEPT ![f] =
                   IF overridden
                   THEN [kind |-> "list", size |-> fstandby + fother + fterminal,
                         standby |-> fstandby]
                   ELSE ErrResp]

\* start(): await this.init(), then the two setInterval
Start ==
  /\ UNCHANGED <<hostVars, dirVars, spawnVars, proxyVars, gateVars>>
  /\ ~fstarted
  /\ fstarted' = TRUE
  /\ UNCHANGED <<fpc, fresp, flast, fstandby, fother, fterminal, clast>>

\* setInterval(() => this.fill(), FILL_FREQ) fires: one more fill() runs
IntervalFill(f) ==
  /\ UNCHANGED <<hostVars, dirVars, spawnVars, proxyVars, gateVars>>
  /\ fstarted
  /\ fpc[f] = "none"
  /\ \A g \in Fills : g < f => fpc[g] # "none"
  /\ FillList(f)
  /\ UNCHANGED <<fstarted, flast, fstandby, fother, fterminal, clast>>

\* the timer fill() set for itself fires
TimeoutFill(f) ==
  /\ UNCHANGED <<hostVars, dirVars, spawnVars, proxyVars, gateVars>>
  /\ fpc[f] = "scheduled"
  /\ FillList(f)
  /\ UNCHANGED <<fstarted, flast, fstandby, fother, fterminal, clast>>

\* fill() resumes after `await this.list()`: the spawn loop or the catch,
\* then the timer for the next cycle.  A spawn() is not awaited; those the
\* cluster carries out each add a pod to the standby pool.
FillListed(f) ==
  /\ UNCHANGED <<hostVars, dirVars, spawnVars, proxyVars, gateVars>>
  /\ fpc[f] = "awaitList"
  /\ fresp' = [fresp EXCEPT ![f] = NoResp]
  /\ IF fresp[f].kind = "err"
     THEN /\ FillEnds(f, FALSE)
          /\ flast' = [ended |-> TRUE, ok |-> FALSE, spawns |-> 0]
          /\ UNCHANGED fstandby
     ELSE LET required == STANDBY_POOL - fresp[f].size
          IN /\ FillEnds(f, TRUE)
             /\ flast' = [ended |-> TRUE, ok |-> TRUE,
                          spawns |-> IF required > 0 THEN required ELSE 0]
             /\ \E created \in 0..flast'.spawns :
                  /\ fstandby + fother + fterminal + created <= MaxClusterPods
                  /\ fstandby' = fstandby + created
  /\ UNCHANGED <<fstarted, fother, fterminal, clast>>

\* a clean() that deletes one terminated pod and leaves the others
CleanCycleDeletingOne(ok) ==
  /\ UNCHANGED <<hostVars, dirVars, spawnVars, proxyVars, gateVars>>
  /\ fstarted
  /\ IF ok
     THEN /\ fterminal' = IF fterminal > 0 THEN fterminal - 1 ELSE 0
          /\ clast' = [ran |-> TRUE, ok |-> TRUE, deleted |-> fterminal - fterminal']
     ELSE /\ clast' = [ran |-> TRUE, ok |-> FALSE, deleted |-> 0]
          /\ UNCHANGED fterminal
  /\ UNCHANGED <<fstarted, fpc, fresp, flast, fstandby, fother>>

\* setInterval(() => this.clean(), CLEAN_FREQ) fires.  Cluster.clean is to be
\* overridden: the clean() that runs lists the pods in phase Succeeded or
\* Failed and deletes them from the control plane, or fails and is logged.
CleanCycle(ok) ==
  /\ UNCHANGED <<hostVars, dirVars, spawnVars, proxyVars, gateVars>>
  /\ fstarted
  /\ IF ok
     THEN /\ fterminal' = 0
          /\ clast' = [ran |-> TRUE, ok |-> TRUE, deleted |-> fterminal]
     ELSE /\ clast' = [ran |-> TRUE, ok |-> FALSE, deleted |-> 0]
          /\ UNCHANGED fterminal
  /\ UNCHANGED <<fstarted, fpc, fresp, flast, fstandby, fother>>

Clean == \E ok \in BOOLEAN : CleanCycle(ok)

\* a standby pod is acquired
ClusterPodAcquired ==
  /\ UNCHANGED <<hostVars, dirVars, spawnVars, proxyVars, gateVars>>
  /\ fstandby > 0
  /\ fstandby' = fstandby - 1
  /\ fother' = fother + 1
  /\ UNCHANGED <<fstarted, fpc, fresp, flast, fterminal, clast>>

\* a pod's container exits: the pod is Succeeded or Failed
ClusterPodTerminates ==
  /\ UNCHANGED <<hostVars, dirVars, spawnVars, proxyVars, gateVars>>
  /\ \/ /\ fstandby > 0
        /\ fstandby' = fstandby - 1
        /\ UNCHANGED fother
     \/ /\ fother > 0
        /\ fother' = fother - 1
        /\ UNCHANGED fstandby
  /\ fterminal' = fterminal + 1
  /\ UNCHANGED <<fstarted, fpc, fresp, flast, clast>>

\* start() has not been called
FillIdle ==
  /\ fstarted = FALSE
  /\ fpc = [f \in Fills |-> "none"]
  /\ fresp = [f \in Fills |-> NoResp]
  /\ flast = NoFill
  /\ fstandby = 0
  /\ fother = 0
  /\ fterminal = 0
  /\ clast = NoClean

\* a Cluster before start(), over any pods
FillInit ==
  /\ fstarted = FALSE
  /\ fpc = [f \in Fills |-> "none"]
  /\ fresp = [f \in Fills |-> NoResp]
  /\ flast = NoFill
  /\ fstandby \in 0..MaxClusterPods
  /\ fother \in 0..MaxClusterPods
  /\ fterminal \in 0..MaxClusterPods
  /\ fstandby + fother + fterminal <= MaxClusterPods
  /\ clast = NoClean

\* ------------------------------------------- calls to a session's pod
\* retry-request: the retries a call asks for, after its first attempt
SESSION_PROXY_RETRIES == 1
HOST_RETRIES == 9
\* Host.put passes no options: the package's default
DEFAULT_RETRIES == 2

ForwardOps == {"proxy", "manifest", "post", "put"}

Retries(op) ==
  CASE op = "proxy" -> SESSION_PROXY_RETRIES
    [] op \in {"manifest", "post"} -> HOST_RETRIES
    [] OTHER -> DEFAULT_RETRIES

NoForward == [op |-> "none", resolves |-> 0, attempts |-> 0, ret |-> NoRet]

\* request(options, {retries}, cb): the request is sent for the first time
Request(op, resolves) ==
  /\ xpc' = "requesting"
  /\ xop' = op
  /\ xresolves' = resolves
  /\ xattempts' = 1
  /\ UNCHANGED xlast

\* the forwarded call passes `ret` to its caller
ForwardEnds(op, resolves, attempts, ret) ==
  /\ xlast' = [op |-> op, resolves |-> resolves, attempts |-> attempts, ret |-> ret]
  /\ xpc' = "idle"
  /\ xop' = "none"
  /\ xresolves' = 0
  /\ xattempts' = 0

\* sessionProxy that sends its request whatever resolve() gave
ProxyResolvedSendsAnyway(resolves, outcome) == Request("proxy", resolves)

\* sessionProxy after `await this.resolve(sessionId)`: a rejection of
\* resolve() rejects sessionProxy
ProxyResolved(resolves, outcome) ==
  IF outcome.kind = "error"
  THEN ForwardEnds("proxy", resolves, 0, outcome)
  ELSE Request("proxy", resolves)

\* sessionProxy after a step of its resolve(): it still awaits the control
\* plane, or resolve() has ended
ProxyAwaits(resolves) ==
  IF cpc'[1] # "idle"
  THEN /\ xpc' = "resolving"
       /\ xop' = "proxy"
       /\ xresolves' = resolves
       /\ UNCHANGED <<xattempts, xlast>>
  ELSE ProxyResolved(resolves, last'.ret)

\* sessionProxy(sessionId, ...) up to the first await of its resolve()
SessionProxy ==
  /\ UNCHANGED <<hostVars, spawnVars, fillVars, gateVars>>
  /\ xpc = "idle"
  /\ Call(1, {"resolve"})
  /\ ProxyAwaits(xresolves + 1)

\* the list() under sessionProxy's resolve() resumes
ProxyListResponse ==
  /\ UNCHANGED <<hostVars, spawnVars, fillVars, gateVars>>
  /\ xpc = "resolving"
  /\ ListResponse(1, FALSE)
  /\ ProxyAwaits(xresolves)

\* the get() under sessionProxy's resolve() resumes
ProxyGetResponse ==
  /\ UNCHANGED <<hostVars, spawnVars, fillVars, gateVars>>
  /\ xpc = "resolving"
  /\ GetResponse(1)
  /\ ProxyAwaits(xresolves)

\* Host.manifest, Host.post, Host.put: request(...) to session.pod
HostForward(op) ==
  /\ UNCHANGED <<hostVars, dirVars, spawnVars, fillVars, gateVars>>
  /\ xpc = "idle"
  /\ Request(op, 0)

\* retry-request: the pod answers the attempt, or the attempt fails in
\* transport and is made again while retries are left
PodResponse ==
  /\ UNCHANGED <<hostVars, dirVars, spawnVars, fillVars, gateVars>>
  /\ xpc = "requesting"
  /\ \E ok \in BOOLEAN :
       IF ok
       THEN ForwardEnds(xop, xresolves, xattempts, Value("body"))
       ELSE IF xattempts - 1 < Retries(xop)
       THEN /\ xattempts' = xattempts + 1
            /\ UNCHANGED <<xpc, xop, xresolves, xlast>>
       ELSE ForwardEnds(xop, xresolves, xattempts, Error("request failed"))

ProxyIdle ==
  /\ xpc = "idle"
  /\ xop = "none"
  /\ xresolves = 0
  /\ xattempts = 0
  /\ xlast = NoForward

\* ============ HostHttpServer: the routes that require a session
\* the routes of src/HostHttpServer.js and of src/lib/HostHttpServer.js that
\* test `if (!session)`, each with the Host operation it calls
SessionRoutes ==
  {[server |-> "HostHttpServer", method |-> "POST", route |-> "/*",
    operation |-> "post"],
   [server |-> "HostHttpServer", method |-> "PUT", route |-> "/*",
    operation |-> "put"],
   [server |-> "lib/HostHttpServer", method |-> "POST", route |-> "/environ/*",
    operation |-> "launch_environ"],
   [server |-> "lib/HostHttpServer", method |-> "GET", route |-> "/environ/*",
    operation |-> "inspect_environ"]}
  \cup {[server |-> "lib/HostHttpServer", method |-> m, route |-> "/pod/*",
         operation |-> "proxy_environ"] : m \in {"GET", "POST", "PUT", "DELETE"}}

\* the token found in the query, the Authorization header or the cookie, and
\* the ticket of the query ("": none)
CarriedTokens == {NoToken, Sign(EmptySession), ForgedToken}
CarriedTickets == {"", "TICKET", "wrong"}

GateRequests ==
  [at : SessionRoutes, matches : BOOLEAN, readable : BOOLEAN,
   token : CarriedTokens, ticket : CarriedTickets]

\* receive() reads the ticket only when it found no token
CredentialsOf(q) ==
  IF q.token # NoToken THEN [kind |-> "token", token |-> q.token]
  ELSE IF q.ticket # "" THEN [kind |-> "ticket", ticket |-> q.ticket]
  ELSE [kind |-> "none"]

\* error(req, res, ctx, code, message): ctx.send(code, {message}), and the
\* handler returns
GateError(code) ==
  /\ gsent' = Append(gsent, [code |-> code, cookie |-> NoToken])
  /\ gpc' = "done"
  /\ UNCHANGED gop

\* receive() up to body(req, ...): the pattern, the token, the ticket
GateReceive ==
  /\ gpc \in {"idle", "done"}
  /\ \E q \in GateRequests :
       LET rs == ReceiveSession(CredentialsOf(q))
       IN /\ greq' = q
          /\ IF ~q.matches
             THEN /\ gsent' = <<[code |-> 400, cookie |-> NoToken]>>
                  /\ gsession' = NoSession
                  /\ gpc' = "done"
             ELSE IF rs.code # 0
             THEN /\ gsent' = <<[code |-> rs.code, cookie |-> NoToken]>>
                  /\ gsession' = NoSession
                  /\ gpc' = "done"
             ELSE /\ gsent' = <<>>
                  /\ gsession' = rs.session
                  /\ gpc' = "body"
  /\ gop' = "none"
  /\ UNCHANGED <<hostVars, dirVars, spawnVars, fillVars, proxyVars>>

\* the callback of body(): an error of the body, or the route's handler up
\* to the call of the Host operation
GateBody ==
  /\ gpc = "body"
  /\ IF ~greq.readable THEN GateError(500)
     ELSE IF gsession = NoSession THEN GateError(401)
     ELSE /\ gop' = greq.at.operation
          /\ gpc' = "host"
          /\ UNCHANGED gsent
  /\ UNCHANGED <<greq, gsession>>
  /\ UNCHANGED <<hostVars, dirVars, spawnVars, fillVars, proxyVars>>

\* the callback the route hands to the Host operation: error() or send()
GateHostCallback ==
  /\ gpc = "host"
  /\ \E err \in BOOLEAN :
       IF err THEN GateError(500)
       ELSE /\ gsent' = Append(gsent, [code |-> 200,
                                       cookie |-> Headers(greq.at.method, gsession)])
            /\ gpc' = "done"
            /\ UNCHANGED gop
  /\ UNCHANGED <<greq, gsession>>
  /\ UNCHANGED <<hostVars, dirVars, spawnVars, fillVars, proxyVars>>

GateIdle ==
  /\ gpc = "idle"
  /\ greq = [at |-> [server |-> "HostHttpServer", method |-> "POST",
                     route |-> "/*", operation |-> "post"],
             matches |-> TRUE, readable |-> TRUE, token |-> NoToken, ticket |-> ""]
  /\ gsession = NoSession
  /\ gop = "none"
  /\ gsent = <<>>

RestIdle == SpawnIdle /\ FillIdle /\ ProxyIdle /\ GateIdle


\* no request reaches a Host
HostIdle ==
  /\ pods = [p \in PodIds |-> StandbyPod("Pending")]
  /\ pc = [r \in Reqs |-> "idle"]
  /\ host = [r \in Reqs |-> 1]
  /\ method = [r \in Reqs |-> "GET"]
  /\ cred = [r \in Reqs |-> [kind |-> "none"]]
  /\ session = [r \in Reqs |-> NoSession]
  /\ session0 = [r \in Reqs |-> NoSession]
  /\ resp = [r \in Reqs |-> NoResp]
  /\ uri = [r \in Reqs |-> NoUri]
  /\ status = [r \in Reqs |-> 0]
  /\ cookie = [r \in Reqs |-> NoToken]
  /\ aquired = [r \in Reqs |-> NotCalled]
  /\ calls = [r \in Reqs |-> <<>>]
  /\ tokens = {}

DirSpecInit == HostIdle /\ DirInit /\ RestIdle

\* list() called by overlapping callers while time passes and pods change
DirNext ==
  \/ \E c \in Callers : DirCall(c, {"list"})
  \/ \E c \in Callers : DirListResponse(c, FALSE)
  \/ DirInitCall
  \/ Tick
  \/ \E p \in SessionIds : KPodChanges(p)

DirSpec == DirSpecInit /\ [][DirNext]_vars

SeqSpecInit == HostIdle /\ SeqInit /\ RestIdle

\* list(), get() and resolve() called one after the other
SeqNext ==
  \/ DirCall(1, {"list", "get", "resolve"})
  \/ DirListResponse(1, TRUE)
  \/ DirGetResponse(1)
  \/ DirInitCall

SeqSpec == SeqSpecInit /\ [][SeqNext]_vars

\* list() and get() called one after the other while time passes
\* and pods change
GetNext ==
  \/ DirCall(1, {"list", "get"})
  \/ DirListResponse(1, FALSE)
  \/ DirGetResponse(1)
  \/ DirInitCall
  \/ Tick
  \/ \E p \in SessionIds : KPodChanges(p)

GetSpec == DirSpecInit /\ [][GetNext]_vars

\* calls forwarded to session pods, one at a time
ProxyNext ==
  \/ SessionProxy
  \/ ProxyListResponse
  \/ ProxyGetResponse
  \/ \E op \in ForwardOps \ {"proxy"} : HostForward(op)
  \/ PodResponse
  \/ DirInitCall
  \/ \E p \in SessionIds : KPodChanges(p)

ProxySpec == DirSpecInit /\ [][ProxyNext]_vars

\* sessionProxy alone
SessionProxyNext ==
  \/ SessionProxy
  \/ ProxyListResponse
  \/ ProxyGetResponse
  \/ PodResponse
  \/ DirInitCall
  \/ \E p \in SessionIds : KPodChanges(p)

SessionProxySpec == DirSpecInit /\ [][SessionProxyNext]_vars

\* spawn() of KubernetesCluster and of Host, called one at a time
SpawnNext ==
  \/ \E reason \in Reasons : KSpawn(reason)
  \/ KSpawnResponse
  \/ \E id \in Hosts : HostSpawn(id)
  \/ HostSpawnCreated
  \/ HostSpawnPolled
  \/ DirInitCall

SpawnSpecInit ==
  /\ HostIdle
  /\ DirInit
  /\ SESSION_AFFINITY \in AffinityWeights
  /\ ssession \in SoftwareSessions
  /\ SpawnReady
  /\ FillIdle
  /\ ProxyIdle /\ GateIdle

SpawnSpec == SpawnSpecInit /\ [][SpawnNext]_vars

FillSpecInit == HostIdle /\ DirIdle /\ SpawnIdle /\ FillInit /\ ProxyIdle /\ GateIdle

\* the fill task of a Cluster, and its pods
FillNext ==
  \/ Start
  \/ \E f \in Fills : IntervalFill(f)
  \/ \E f \in Fills : TimeoutFill(f)
  \/ \E f \in Fills : FillListed(f)
  \/ ClusterPodAcquired
  \/ ClusterPodTerminates

FillSpec == FillSpecInit /\ [][FillNext]_vars

\* the tasks of a Cluster that starts with no pods
FillTasks ==
  \/ Start
  \/ \E f \in Fills : IntervalFill(f)
  \/ \E f \in Fills : TimeoutFill(f)
  \/ \E f \in Fills : FillListed(f)

\* the event loop runs every timer that is due and every continuation that
\* is ready
FillFairInit == HostIdle /\ DirIdle /\ SpawnIdle /\ FillIdle /\ ProxyIdle /\ GateIdle

FillFair ==
  /\ FillFairInit
  /\ [][FillTasks]_vars
  /\ WF_vars(Start)
  /\ \A f \in Fills : WF_vars(IntervalFill(f))
  /\ \A f \in Fills : WF_vars(TimeoutFill(f))
  /\ \A f \in Fills : WF_vars(FillListed(f))

\* fill cycles of a Cluster that starts with no pods, while standby pods
\* are acquired and no pod is deleted
PoolNext ==
  \/ FillTasks
  \/ ClusterPodAcquired

PoolSpec == FillFairInit /\ [][PoolNext]_vars

\* the clean task of a Cluster and its pods
CleanTasks ==
  \/ Start
  \/ Clean
  \/ ClusterPodAcquired
  \/ ClusterPodTerminates

\* the event loop runs every timer that is due, and the control plane does
\* not fail for ever
CleanFair ==
  /\ FillSpecInit
  /\ [][CleanTasks]_vars
  /\ WF_vars(Start)
  /\ WF_vars(CleanCycle(TRUE))

\* aquire() alone: every request is a manifest request with a valid ticket,
\* up to the result of aquire
AquireNext ==
  \/ \E r \in Reqs : ReceiveOf(r, {"GET"}, {[kind |-> "ticket", ticket |-> "TICKET"]})
  \/ \E r \in Reqs : OnPodsListed(r)
  \/ \E r \in Reqs : OnClaimed(r)
  \/ \E r \in Reqs : OnAquired(r)
  \/ \E p \in PodIds : PodPhase(p)

\* the routes of a Host under requests without a token, over pods whose
\* phases stay as they start
RouteNext ==
  \/ \E r \in Reqs : ReceiveOf(r, Methods, {[kind |-> "none"],
                                            [kind |-> "ticket", ticket |-> "TICKET"]})
  \/ \E r \in Reqs : OnPodsListed(r)
  \/ \E r \in Reqs : OnClaimed(r)
  \/ \E r \in Reqs : OnAquired(r)
  \/ \E r \in Reqs : OnPodResponse(r)

Init == HostInit /\ DirIdle /\ RestIdle

RouteSpec == Init /\ [][RouteNext]_vars

\* requests on the session-requiring routes, one after the other
GateNext == GateReceive \/ GateBody \/ GateHostCallback

GateSpec == Init /\ [][GateNext]_vars

AquireSpec == Init /\ [][AquireNext]_vars

Next ==
  \/ \E r \in Reqs : Receive(r)
  \/ \E r \in Reqs : OnPodsListed(r)
  \/ \E r \in Reqs : OnClaimed(r)
  \/ \E r \in Reqs : OnAquired(r)
  \/ \E r \in Reqs : OnPodResponse(r)
  \/ \E p \in PodIds : PodPhase(p)

Spec == Init /\ [][Next]_vars

\* ===================================================== claims, Host.js
Won(r) == aquired[r].called /\ ~aquired[r].err /\ aquired[r].pod # NoPod

AquireStarted(r) == calls[r] # <<>>

AwaitingControlPlane(r) == pc[r] \in {"listing", "claiming", "aquiring"}

\* C1: under every interleaving of aquire calls by allocator replicas with
\* different ids, no two calls get the same pod as their aquired winner.
C1_DistinctWinners ==
  \A r1, r2 \in Reqs :
    (r1 # r2 /\ host[r1] # host[r2] /\ Won(r1) /\ Won(r2))
      => aquired[r1].pod # aquired[r2].pod

\* C2: the aquired patch for a pod is issued only after the pod was fetched
\* again from the control plane, following the claim patch.
C2_RefetchBeforeAquirePatch ==
  \A r \in Reqs : \A i \in 1..Len(calls[r]) :
    calls[r][i][1] = "aquired"
      => /\ i > 2
         /\ calls[r][i - 1] = <<"get", calls[r][i][2]>>
         /\ calls[r][i - 2] = <<"claimed", calls[r][i][2]>>

\* C3: every aquire call terminates: a call that awaits no control-plane
\* response has passed a pod, no pod or an error to its callback.
C3_AquireTerminates ==
  \A r \in Reqs :
    (AquireStarted(r) /\ ~AwaitingControlPlane(r)) => aquired[r].called

\* C4: once the callback of the standby listing has handled a listing with
\* no Running pod, aquire has reported no pod and obtain is spawning or has
\* gone on to answer the caller.
C4_NoStandbyFallsThroughToSpawn ==
  \A r \in Reqs :
    (pc[r] # "listing" /\ resp[r].kind = "list" /\ FirstRunning(resp[r].items) = 0)
      => /\ aquired[r] = [called |-> TRUE, err |-> FALSE, pod |-> NoPod]
         /\ pc[r] \in {"spawning", "proxying", "done"}

\* C5: a request whose session already has a pod forwards to that pod only,
\* leaves session.pod as it was and starts no aquire or spawn.
C5_SessionKeepsPod ==
  \A r \in Reqs :
    (pc[r] # "idle" /\ session0[r] # NoSession /\ session0[r].pod # NoPod)
      => /\ session[r].pod = session0[r].pod
         /\ calls[r] = <<>>
         /\ ~aquired[r].called
         /\ pc[r] \in {"proxying", "done"}
         /\ uri[r].pod = session0[r].pod

C5_Witness ==
  \E r \in Reqs :
    /\ session0[r] # NoSession /\ session0[r].pod # NoPod
    /\ method[r] \in {"GET", "POST", "PUT"}
    /\ status[r] = 200
    /\ uri[r].pod = session0[r].pod

Fresh == kcachedAt # 0 /\ now - kcachedAt <= listRefresh

\* C7: a list() call that finds the cache fresh (now - fetchedAt <= refresh
\* interval) returns the cached map, leaves the cache as it is and issues no
\* control-plane call; a control-plane list call is issued only when the cache
\* was never fetched or is older than the refresh interval.
C7_FreshCacheServesList ==
  [][\A c \in Callers :
       /\ (DirCall(c, {"list"}) /\ Fresh)
            => /\ last'.op = "list" /\ last'.ret = Value(klist)
               /\ ~last'.listed
               /\ cpc'[c] = "idle"
               /\ klist' = klist /\ kcachedAt' = kcachedAt
       /\ (cpc[c] # "awaitList" /\ cpc'[c] = "awaitList") => ~Fresh]_vars

C7_Witness ==
  /\ last.op = "list" /\ last.fresh /\ ~last.listed
  /\ last.seen # {} /\ last.ret = Value(last.seen)
  /\ now - kcachedAt = listRefresh
  /\ \A c \in Callers : cpc[c] = "idle"

\* C8: however many list() callers overlap, a caller that finds the cache
\* stale while a refresh is awaiting the control plane starts no second
\* control-plane list call: at most one is in flight.
C8_OneRefreshInFlight ==
  Cardinality({c \in Callers : cpc[c] = "awaitList"}) <= 1

\* C9: resolve(id) of a pod record returns http://<ip>:<port> when the record
\* has ip and port, fails with 'Pod not ready yet' when it has no ip and its
\* phase is Pending, and fails with the pod-failure error when it has no ip
\* and any other phase.
C9_ResolveOutcomes ==
  (last.op = "resolve" /\ last.pod # NoSessionDescription)
    => last.ret =
         IF last.pod.ip # 0 /\ last.pod.port # 0
         THEN Value(PodUrl(last.pod.ip, last.pod.port))
         ELSE IF last.pod.status = ToLowerCase("Pending")
         THEN Error("Pod not ready yet")
         ELSE Error("Pod failure?")

\* the Pending pods of the cache
PendingInCache == {x \in klist : x.status = ToLowerCase("Pending")}

\* C10: after a refresh the Pending pods of the cache carry pendingPosition
\* 0, 1, 2, ... in ascending order of created, whatever the order in which the
\* control plane returned them, and every other pod has pendingPosition -1.
C10_PendingRankedByCreated ==
  /\ \A x \in klist \ PendingInCache : x.pendingPosition = -1
  /\ {x.pendingPosition : x \in PendingInCache}
       = 0..(Cardinality(PendingInCache) - 1)
  /\ \A a, b \in PendingInCache :
       /\ a.created < b.created => a.pendingPosition < b.pendingPosition
       /\ a # b => a.pendingPosition # b.pendingPosition

C10_Witness ==
  /\ kcachedAt # 0
  /\ \E i, j \in 1..Len(klistedAs) :
       /\ i < j
       /\ kpods[klistedAs[i]].phase = "Pending"
       /\ kpods[klistedAs[j]].phase = "Pending"
       /\ kpods[klistedAs[i]].created > kpods[klistedAs[j]].created
       /\ Get(klist, klistedAs[j]).pendingPosition = 0
       /\ Get(klist, klistedAs[i]).pendingPosition = 1

RegisteredEnvirons ==
  {DEFAULT_CONTAINERS[i].image : i \in 1..Len(DEFAULT_CONTAINERS)}

\* C12: spawn for an environment id that is not registered fails, with the
\* unknown-environment error once the cluster is initialised, submits no pod
\* creation request, and leaves the pods of the control plane as they were.
C12_UnknownEnvironmentCreatesNothing ==
  [][\A reason \in Reasons :
       (KSpawn(reason) /\ ssession.environment.id \notin RegisteredEnvirons)
         => /\ spc' = "idle"
            /\ slast'.ret.kind = "error"
            /\ kinit => slast'.ret = Error("Container with environment ID does not exist")
            /\ slast'.body = NoBody
            /\ sresp' = NoResp
            /\ kpods' = kpods]_vars

C12_Witness ==
  /\ kinit
  /\ slast.by = "KubernetesCluster"
  /\ slast.session.environment.id \notin RegisteredEnvirons
  /\ slast.ret = Error("Container with environment ID does not exist")
  /\ slast.body = NoBody
  /\ \E p \in SessionIds : ~kpods[p].exists

\* C13: every pod creation request a spawn submits to the control plane has
\* the service-account token mount disabled, restartPolicy Never, a non-root
\* security context and exactly one exposed port.
C13_PodRequestsAreLockedDown ==
  slast.body # NoBody =>
    LET podSpec == slast.body.spec
    IN /\ "automountServiceAccountToken" \in DOMAIN podSpec
       /\ podSpec.automountServiceAccountToken = FALSE
       /\ podSpec.restartPolicy = "Never"
       /\ "securityContext" \in DOMAIN podSpec
       /\ podSpec.securityContext.runAsUser # 0
       /\ Len(podSpec.containers) = 1
       /\ Len(podSpec.containers[1].ports) = 1

\* C14: a Fill cycle whose list succeeded issues max(deficit, 0) spawn
\* operations, deficit being the target pool size less the number of listed
\* pods in pool stage standby.
C14_FillSpawnsTheStandbyDeficit ==
  [][\A f \in Fills :
       (FillListed(f) /\ fresp[f].kind = "list")
         => flast'.spawns = IF STANDBY_POOL - fresp[f].standby > 0
                            THEN STANDBY_POOL - fresp[f].standby ELSE 0]_vars

\* C15: every Fill cycle, whether its list succeeded or failed, ends with the
\* next cycle scheduled, and every scheduled cycle runs: once started, Fill
\* runs again and again.
C15_FillAlwaysReschedules ==
  /\ \A f \in Fills : [](fpc[f] = "awaitList" => <>(fpc[f] = "scheduled"))
  /\ \A f \in Fills : [](fpc[f] = "scheduled" => <>(fpc[f] = "awaitList"))
  /\ []<>(\E f \in Fills : fpc[f] = "awaitList")

C15_Witness ==
  \E f \in Fills :
    /\ flast.ended /\ ~flast.ok
    /\ fpc[f] = "awaitList"
    /\ \A g \in Fills : fpc[g] # "none"

Given(v) == v.kind = "number" /\ v.n # 0

FieldOf(obj, field) == IF obj = Undefined THEN Undefined ELSE obj[field]

\* C20: the resources of a pod request carry, for the memory request, the
\* memory limit and the cpu limit, the session's own value when it gives
\* one and the process default otherwise; cpu shares become
\* shares / 1024 * 1000 millicores, so 512 shares are 500m
C20_ExplicitValueElseDefault ==
  (slast.by = "KubernetesCluster" /\ slast.body # NoBody) =>
    LET reservation == FieldOf(slast.session.ram, "reservation")
        limit == FieldOf(slast.session.ram, "limit")
        shares == FieldOf(slast.session.cpu, "shares")
        resources == slast.body.spec.containers[1].resources
    IN /\ resources.requests.memory =
            IF Given(reservation) THEN Template(Rat(reservation.n, 1), "Gi")
            ELSE Template(POD_REQUEST_MEM, "Gi")
       /\ resources.limits.memory =
            IF Given(limit) THEN Template(Rat(limit.n, 1), "Gi")
            ELSE Template(POD_LIMIT_MEM, "Gi")
       /\ resources.limits.cpu =
            IF Given(shares) THEN Template(Rat(shares.n * 1000, 1024), "m")
            ELSE Template(POD_LIMIT_CPU, "m")
       /\ shares = Num(512) => resources.limits.cpu = [value |-> <<500, 1>>, unit |-> "m"]
       /\ slast.session = ssession

C20_Witness ==
  /\ slast.by = "KubernetesCluster"
  /\ slast.body # NoBody
  /\ slast.session.cpu # Undefined
  /\ slast.session.cpu.shares = Num(512)
  /\ slast.session.ram = Undefined
  /\ slast.body.spec.containers[1].resources.limits =
       [memory |-> [value |-> <<6, 5>>, unit |-> "Gi"],
        cpu |-> [value |-> <<500, 1>>, unit |-> "m"]]

\* C19: a pod's pool label only moves standby -> claimed -> aquired: a pod
\* claimed by one host is patched by no other host, and a pod that is
\* aquired is never labelled claimed again nor given another aquirer.
C19_PoolStageOnlyAdvances ==
  [][\A p \in PodIds :
       /\ pods[p].pool = "claimed" =>
            /\ pods'[p].pool \in {"claimed", "aquired"}
            /\ pods'[p].claimer = pods[p].claimer
            /\ pods'[p].pool = "aquired" => pods'[p].aquirer = pods[p].claimer
       /\ pods[p].pool = "aquired" =>
            /\ pods'[p].pool = "aquired"
            /\ pods'[p].claimer = pods[p].claimer
            /\ pods'[p].aquirer = pods[p].aquirer]_vars

\* C17: a call forwarded to a session's pod (proxy, manifest, post, put) is
\* sent at most twice, the first attempt and one retry, and it fails only
\* when the retry has failed too.
C17_AtMostTwoAttempts ==
  /\ xattempts <= 2
  /\ xlast.op \in ForwardOps =>
       /\ xlast.attempts <= 2
       /\ (xlast.attempts > 0 /\ xlast.ret.kind = "error") => xlast.attempts = 2

\* a step of sessionProxy in which its resolve() ends
ResolveEnds ==
  /\ SessionProxy \/ ProxyListResponse \/ ProxyGetResponse
  /\ cpc'[1] = "idle"

\* C18: when the resolve() of a sessionProxy call fails, the call ends with
\* that failure, having sent no request to a pod; a sessionProxy call makes
\* one resolve() call, whatever its outcome.
C18_ResolveFailureSendsNothing ==
  /\ [](xresolves <= 1 /\ (xlast.op = "proxy" => xlast.resolves = 1))
  /\ [][(ResolveEnds /\ last'.ret.kind = "error")
          => /\ xpc' = "idle"
             /\ xlast' = [op |-> "proxy", resolves |-> 1, attempts |-> 0,
                          ret |-> last'.ret]]_vars

C18_Witness ==
  /\ xpc = "idle"
  /\ xlast = [op |-> "proxy", resolves |-> 1, attempts |-> 0,
              ret |-> last.ret]
  /\ last.op = "resolve"
  /\ last.listed
  /\ last.pod # NoSessionDescription
  /\ last.pod.status = "pending"
  /\ last.ret.kind = "error"

\* the names of the pods in the cache
CachedIds == {x.id : x \in klist}

\* C21: this._list and this._listCachedAt are assigned together, from one
\* response of the control plane: whenever another handler can run, the cache
\* holds exactly one session for each pod of the response it was built from
\* and nothing else, and it is fetched if and only if it has a fetch time; a
\* step changes either of the two only by replacing the map with the sessions
\* of the response that step reads and setting the fetch time to now.
C21_RefreshIsWholesale ==
  /\ [](/\ kcachedAt = 0 => klist = {} /\ klistedAs = <<>>
        /\ CachedIds = {klistedAs[i] : i \in 1..Len(klistedAs)}
        /\ Cardinality(klist) = Len(klistedAs))
  /\ [][(klist' # klist \/ kcachedAt' # kcachedAt)
          => \E c \in Callers :
               /\ cpc[c] = "awaitList"
               /\ cpc'[c] = "idle"
               /\ klist' = ToMap(RankPending(Sort(MapPodToSession(
                              ByName(cresp[c].pods, 1))), 0))
               /\ kcachedAt' = now]_vars

\* a cache fetched earlier is replaced by a refresh that lists other sessions
C21_Witness ==
  /\ kcachedAt > 1
  /\ klist # {}
  /\ \E x \in klist : x.status = "running"
  /\ last.op = "list" /\ last.listed /\ last.ret = Value(klist)
  /\ \E c \in Callers :
       /\ cpc[c] = "awaitList"
       /\ Refreshed(ByName(cresp[c].pods, 1)) # klist

\* C22: the pod request of KubernetesCluster.spawn has an affinity section
\* if and only if SESSION_AFFINITY is greater than 0, and the section is one
\* preferred pod-affinity term weighted SESSION_AFFINITY that selects the
\* label type=session on the topology of the node's hostname.
C22_AffinityIffWeightPositive ==
  (slast.by = "KubernetesCluster" /\ slast.body # NoBody) =>
    LET podSpec == slast.body.spec
    IN /\ "affinity" \in DOMAIN podSpec <=> SESSION_AFFINITY > 0
       /\ "affinity" \in DOMAIN podSpec =>
            LET terms == podSpec.affinity.podAffinity.preferredDuringSchedulingIgnoredDuringExecution
            IN /\ DOMAIN podSpec.affinity = {"podAffinity"}
               /\ DOMAIN podSpec.affinity.podAffinity =
                    {"preferredDuringSchedulingIgnoredDuringExecution"}
               /\ Len(terms) = 1
               /\ terms[1].weight = SESSION_AFFINITY
               /\ terms[1].podAffinityTerm.topologyKey = "kubernetes.io/hostname"
               /\ terms[1].podAffinityTerm.labelSelector.matchExpressions =
                    <<[key |-> "type", operator |-> "In", values |-> <<"session">>]>>

C22_Witness ==
  /\ slast.by = "KubernetesCluster"
  /\ slast.body # NoBody
  /\ SESSION_AFFINITY > 0
  /\ "affinity" \in DOMAIN slast.body.spec
  /\ slast.ret.kind = "value"

\* the request issues a claim patch in this step
Claims(r) ==
  /\ Len(calls'[r]) = Len(calls[r]) + 1
  /\ calls'[r][Len(calls'[r])][1] = "claimed"

\* C23: a claim patch is issued only by the callback of a pool=standby
\* listing, for the first pod of that listing whose phase is Running, and
\* each listing is followed by at most one claim patch.
C23_ClaimsFirstRunningListed ==
  /\ [](\A r \in Reqs : \A i \in 1..Len(calls[r]) :
          calls[r][i][1] = "claimed" => (i > 1 /\ calls[r][i - 1] = <<"list", 0>>))
  /\ [][\A r \in Reqs :
          Claims(r) =>
            LET p == calls'[r][Len(calls'[r])][2]
            IN /\ pc[r] = "listing"
               /\ resp[r].kind = "list"
               /\ \E i \in 1..Len(resp[r].items) :
                    /\ resp[r].items[i].name = p
                    /\ resp[r].items[i].phase = "Running"
                    /\ \A j \in 1..(i - 1) : resp[r].items[j].phase # "Running"]_vars

\* a claim that passed over a listed standby pod that is not Running
C23_Witness ==
  \E r \in Reqs :
    /\ pc[r] = "claiming"
    /\ calls[r] = <<<<"list", 0>>, <<"claimed", 2>>>>
    /\ pods[1].pool = "standby"
    /\ pods[1].phase = "Pending"

\* the labels the control plane reads from a pod request: metadata.labels
LabelsOf(body) ==
  IF "labels" \in DOMAIN body.metadata THEN body.metadata.labels ELSE <<>>

HasLabel(body, key, value) ==
  key \in DOMAIN LabelsOf(body) /\ LabelsOf(body)[key] = value

\* C24: the request for a pod created to fill the pool carries the label
\* pool=standby in metadata.labels, where the listing of aquire selects on
\* it; the request for a pod spawned on demand by a Host does not.
C24_FilledPodsAreStandby ==
  slast.body # NoBody =>
    /\ (slast.by = "KubernetesCluster" /\ HasLabel(slast.body, "reason", "filling"))
         => HasLabel(slast.body, "pool", "standby")
    /\ slast.by = "Host" => ~HasLabel(slast.body, "pool", "standby")

\* C25: after start() at most one fill cycle is running or scheduled.
C25_OneFillCycle ==
  Cardinality({f \in Fills : fpc[f] \in {"awaitList", "scheduled"}}) <= 1

C27_PoolWithinTarget == fstandby <= STANDBY_POOL

\* the request has been received and not yet answered
InFlight(r) == pc[r] \notin {"idle", "done"}

\* the requests came with the same credentials for a session without a pod
SameNewSession(r1, r2) ==
  /\ cred[r1] = cred[r2]
  /\ session0[r1] = session0[r2]
  /\ session0[r1] # NoSession
  /\ session0[r1].pod = NoPod

\* C28: manifest requests for one session without a pod that are in progress
\* together are bound to the same pod: no second pod is obtained for the
\* session.
C28_OnePodPerSession ==
  \A r1, r2 \in Reqs :
    (r1 # r2 /\ InFlight(r1) /\ InFlight(r2) /\ SameNewSession(r1, r2)
       /\ session[r1].pod # NoPod /\ session[r2].pod # NoPod)
      => session[r1].pod = session[r2].pod

\* C29: Host.spawn has called back if and only if it has ended; it passes the
\* pod's address only from the callback of a get that found the pod Running;
\* and a get that finds the pod Succeeded or Failed ends the spawn with a
\* call of the callback.
C29_SpawnCallsBackOnce ==
  /\ [](slast.by = "Host" => (slast.ret # NoRet <=> spc = "idle"))
  /\ [][(HostSpawnPolled /\ slast'.ret.kind = "value")
          => (sresp.kind = "pod" /\ sresp.phase = "Running"
              /\ slast'.ret = Value(PodUrl(sresp.name, POD_PORT)))]_vars
  /\ [][(HostSpawnPolled /\ sresp.kind = "pod" /\ sresp.phase \in TerminalPhases)
          => (spc' = "idle" /\ slast'.ret # NoRet)]_vars

\* C30: a POST or PUT request whose session has no pod is answered with the
\* error of post and put, with no call to the control plane, no request to a
\* pod and its session as it was received; a GET request without a session
\* is answered with the manifest of the Host, also with no call to the
\* control plane and no request to a pod.
C30_NoPodNoForward ==
  \A r \in Reqs :
    pc[r] # "idle" =>
      /\ (method[r] \in {"POST", "PUT"} /\ session0[r] # NoSession
            /\ session0[r].pod = NoPod)
           => /\ pc[r] = "done"
              /\ status[r] = 500
              /\ calls[r] = <<>>
              /\ uri[r] = NoUri
              /\ aquired[r] = NotCalled
              /\ session[r] = session0[r]
      /\ (method[r] = "GET" /\ cred[r].kind = "none")
           => /\ pc[r] = "done"
              /\ status[r] = 200
              /\ cookie[r] = NoToken
              /\ calls[r] = <<>>
              /\ uri[r] = NoUri
              /\ aquired[r] = NotCalled
              /\ session[r] = NoSession

\* a POST with a ticket is refused while a standby pod is Running, and a GET
\* without credentials is answered
C30_Witness ==
  /\ \E r \in Reqs :
       /\ method[r] = "POST" /\ session0[r] = EmptySession
       /\ pc[r] = "done" /\ status[r] = 500
  /\ \E r \in Reqs :
       /\ method[r] = "GET" /\ cred[r].kind = "none"
       /\ pc[r] = "done" /\ status[r] = 200
  /\ \E p \in PodIds : pods[p].pool = "standby" /\ pods[p].phase = "Running"


\* the request carries neither a token that verifies nor the access ticket
Unauthenticated(q) ==
  /\ ~(q.token # NoToken /\ Verifies(q.token))
  /\ q.ticket # "TICKET"

\* what the request's credentials alone answer: 403 for a token that does
\* not verify or a wrong ticket, 401 for none
RefusalOf(q) ==
  IF q.token # NoToken \/ q.ticket # "" THEN 403 ELSE 401

\* no Host operation, no token cookie, and one response once the handler
\* has ended, none before
RefusedOnce ==
  /\ gop = "none"
  /\ gpc \in {"body", "done"}
  /\ Len(gsent) = (IF gpc = "done" THEN 1 ELSE 0)
  /\ \A i \in 1..Len(gsent) : gsent[i].cookie = NoToken

\* C31 as stated: a request to a session-requiring route that carries
\* neither a token that verifies nor the access ticket invokes no Host
\* operation, gets no token cookie and gets one response, which is 403 for an
\* invalid token, 403 for a wrong ticket and 401 for no credentials.
C31_RefusedByCredentials ==
  (gpc # "idle" /\ Unauthenticated(greq)) =>
    /\ RefusedOnce
    /\ gpc = "done" => gsent[1].code = RefusalOf(greq)

\* C31: a request to a session-requiring route that carries neither a token
\* that verifies nor the access ticket invokes no Host operation, gets no
\* token cookie and gets one response: 400 when its pathname does not match
\* the route's pattern; otherwise 403 for an invalid token or a wrong ticket;
\* otherwise, with no credentials, 500 when its body cannot be read and 401
\* when it can.
C31_RefusedWithoutSession ==
  (gpc # "idle" /\ Unauthenticated(greq)) =>
    /\ RefusedOnce
    /\ gpc = "done" =>
         gsent[1].code = (IF ~greq.matches THEN 400
                          ELSE IF RefusalOf(greq) = 403 THEN 403
                          ELSE IF ~greq.readable THEN 500
                          ELSE 401)

\* a PUT without credentials, well formed, has been answered 401 after its
\* body was read
C31_Witness ==
  /\ gpc = "done"
  /\ greq.at.operation = "put"
  /\ greq.token = NoToken /\ greq.ticket = ""
  /\ greq.matches /\ greq.readable
  /\ gsent = <<[code |-> 401, cookie |-> NoToken]>>
  /\ gop = "none"
====
